---- MODULE Spec2Model ----
(***************************************************************************)
(* Model of prefect_dbt/cli/configs/base.py: the dbt config blocks         *)
(* (TargetConfigs, CredentialsTargetConfigs, GlobalConfigs) and            *)
(* DbtConfigs.get_configs, which flattens a block into the key/value       *)
(* mapping written to profiles.yml.                                        *)
(*                                                                         *)
(* A field name is a sequence of tokens.  The token "_" is one underscore  *)
(* character; every other token stands for a run of characters that        *)
(* neither starts nor ends with an underscore ("block_type_slug" is one    *)
(* token).  So <<"schema", "_">> is the name schema_.                       *)
(*                                                                         *)
(* A Python value is a tagged record; a dict is the sequence of its        *)
(* <<key, value>> items in iteration order, with pairwise distinct keys.   *)
(***************************************************************************)
EXTENDS Integers, Sequences, FiniteSets, TLC

VARIABLES node, earlier, last

vars == <<node, earlier, last>>

(* ------------------------------ values ------------------------------- *)

None == [tag |-> "None"]
IntV(n) == [tag |-> "int", val |-> n]
StrV(s) == [tag |-> "str", val |-> s]
BoolV(b) == [tag |-> "bool", val |-> b]
BytesV(s) == [tag |-> "bytes", val |-> s]
SecretStr(s) == [tag |-> "SecretStr", val |-> s]
SecretBytes(s) == [tag |-> "SecretBytes", val |-> s]
DictV(items) == [tag |-> "dict", items |-> items]

Name(core) == <<core>>
Trail(key, n) == key \o [i \in 1..n |-> "_"]

(* ------------------------- class attributes -------------------------- *)

\* DbtConfigs._exclude_fields
ExcludeFields == {Name("block_type_slug")}

\* the class attribute as DbtConfigs declares it, credentials not added
NestedFieldsOfBase(kind) == {Name("extras")}

\* _nested_fields of each class
NestedFields(kind) ==
    IF kind = "CredentialsTargetConfigs"
    THEN {Name("credentials")} \cup {Name("extras")}
    ELSE {Name("extras")}

GlobalToggles ==
    << Name("send_anonymous_usage_stats"), Name("use_colors"),
       Name("partial_parse"), Name("printer_width"), Name("write_json"),
       Name("warn_error"), Name("log_format"), Name("debug"),
       Name("version_check"), Name("fail_fast"),
       Name("use_experimental_parser"), Name("static_parser") >>

Range(s) == {s[i] : i \in DOMAIN s}

\* _include_fields of each class (None is the empty set here: both are falsy)
IncludeFields(kind) ==
    IF kind = "GlobalConfigs"
    THEN Range(GlobalToggles)
    ELSE {Name("type"), Trail(Name("schema"), 1), Name("threads")}

DefaultThreads == 4

(* --------------------------- constructors ---------------------------- *)

NotGiven == [tag |-> "not given"]

\* the declared fields of a block, in declaration order (base class first)
TargetConfigs(type, schema, threads, extras) ==
    [kind |-> "TargetConfigs",
     fields |-> << <<Name("extras"), extras>>,
                   <<Name("type"), type>>,
                   <<Trail(Name("schema"), 1), schema>>,
                   <<Name("threads"),
                     IF threads = NotGiven THEN IntV(DefaultThreads) ELSE threads>> >>]

CredentialsTargetConfigs(type, schema, threads, extras, credentials) ==
    [kind |-> "CredentialsTargetConfigs",
     fields |-> TargetConfigs(type, schema, threads, extras).fields
                \o << <<Name("credentials"), credentials>> >>]

\* toggles: a sequence of twelve values, None where the toggle is not given
GlobalConfigs(toggles, extras) ==
    [kind |-> "GlobalConfigs",
     fields |-> << <<Name("extras"), extras>> >>
                \o [i \in 1..Len(GlobalToggles) |-> <<GlobalToggles[i], toggles[i]>>]]

\* the serialised form of a block: the block type slug, then its fields
BlockSlug(slug, items) == << <<Name("block_type_slug"), StrV(slug)>> >> \o items

\* a credentials block, as it appears inside the dict of the block holding it
Credentials(items) == DictV(BlockSlug("credentials-slug", items))

(* ---------------------------- get_configs ---------------------------- *)

StartsWithUnderscore(key) == Len(key) > 0 /\ key[1] = "_"

\* the name as it is, no underscore removed
NoRStrip(key) == key

\* the name without one trailing underscore
StripOne(key) ==
    IF Len(key) > 0 /\ key[Len(key)] = "_"
    THEN SubSeq(key, 1, Len(key) - 1)
    ELSE key

RECURSIVE RStrip(_)
RStrip(key) ==
    IF Len(key) > 0 /\ key[Len(key)] = "_"
    THEN RStrip(SubSeq(key, 1, Len(key) - 1))
    ELSE key

\* only the underscore test, _exclude_fields not consulted
SkippedPrivateOnly(key) == StartsWithUnderscore(key)

\* line 37: the items the loop passes over
Skipped(key) == StartsWithUnderscore(key) \/ key \in ExcludeFields

\* no test of the value
AnyValue(value) == TRUE

\* line 42
IsNotNone(value) == value # None

\* the value stored as it is
KeepSecret(value) == value

\* lines 51-52
GetSecretValue(value) ==
    IF value.tag = "SecretStr" THEN StrV(value.val)
    ELSE IF value.tag = "SecretBytes" THEN BytesV(value.val)
    ELSE value

Returned(configs_json) == [status |-> "returned", configs |-> configs_json]
ValueError(key) == [status |-> "ValueError", key |-> key]
AttributeError == [status |-> "AttributeError"]

RECURSIVE PopulateConfigsJson(_, _, _), PopulateItems(_, _, _, _)
\* _populate_configs_json: `dict_.items()` exists only on a mapping
PopulateConfigsJson(kind, configs_json, dict_) ==
    IF dict_.tag # "dict"
    THEN AttributeError
    ELSE PopulateItems(kind, configs_json, dict_.items, 1)

\* the loop of _populate_configs_json, from its i-th item on
PopulateItems(kind, configs_json, items, i) ==
    IF i > Len(items) THEN Returned(configs_json)
    ELSE
      LET raw == items[i][1]
          value == items[i][2]
          key == RStrip(raw)
      IN  IF Skipped(raw) THEN PopulateItems(kind, configs_json, items, i + 1)
          ELSE IF ~IsNotNone(value) THEN PopulateItems(kind, configs_json, items, i + 1)
          ELSE IF key \in NestedFields(kind)
          THEN LET r == PopulateConfigsJson(kind, configs_json, value)
               IN  IF r.status # "returned" THEN r
                   ELSE PopulateItems(kind, r.configs, items, i + 1)
          ELSE IF key \in DOMAIN configs_json THEN ValueError(key)
          ELSE PopulateItems(kind, (key :> GetSecretValue(value)) @@ configs_json,
                             items, i + 1)

\* get_configs, lines 63-66: None stands for "no restriction"
Include(kind) ==
    IF IncludeFields(kind) # {}
    THEN [tag |-> "set", names |-> IncludeFields(kind) \cup NestedFields(kind)]
    ELSE None

\* self.dict(include=include): the slug, then the included fields
BlockDict(n, include) ==
    LET Kept(item) == include.tag = "None" \/ item[1] \in include.names
    IN  DictV(BlockSlug("block-slug", SelectSeq(n.fields, Kept)))

\* one dict kept between calls
SharedConfigsJson(before) ==
    IF before.status = "returned" THEN before.configs ELSE << >>

\* the `{}` of line 69: a new dict, whatever an earlier call returned
NewConfigsJson(before) == << >>

GetConfigsOf(n, before) ==
    PopulateConfigsJson(n.kind, NewConfigsJson(before), BlockDict(n, Include(n.kind)))

(* ------------------------------ inputs ------------------------------- *)

MaxEntries == 2

LeafValues == {None, IntV(8), SecretStr("p"), SecretBytes("b")}

\* representative field names: the class's own field `own`, a name that
\* strips to the own field schema_, a nested-field name, a name that strips
\* to an excluded one, a private name and an unrelated one
KeyPool(own) ==
    { Name(own), Trail(Name("schema"), 2), Name("extras"),
      Trail(Name("block_type_slug"), 1), <<"_", "private">>, Name("password") }

Keys(items) == {items[i][1] : i \in DOMAIN items}

\* the dicts (as item sequences) of exactly s entries, nested ones counted;
\* a dict value holds at least one entry
RECURSIVE MapsOfSize(_, _)
MapsOfSize(own, s) ==
    IF s = 0 THEN {<< >>}
    ELSE UNION { LET firsts == IF c = 1
                               THEN LeafValues
                               ELSE {DictV(m) : m \in MapsOfSize(own, c - 1)}
                 IN  UNION { { << <<k, v>> >> \o rest :
                                 k \in KeyPool(own) \ Keys(rest), v \in firsts }
                             : rest \in MapsOfSize(own, s - c) }
               : c \in 1..s }

Maps(own, n) == UNION {MapsOfSize(own, s) : s \in 0..n}

\* extras: unset, or a dict of exactly s entries
ExtrasOfSize(own, s) ==
    (IF s = 0 THEN {None} ELSE {}) \cup {DictV(m) : m \in MapsOfSize(own, s)}

ToggleValues(i) ==
    IF GlobalToggles[i] = Name("printer_width")
    THEN {IntV(80)}
    ELSE {BoolV(TRUE), BoolV(FALSE)}

\* the values of the first i toggles, at most b of them given
RECURSIVE Toggles(_, _)
Toggles(i, b) ==
    IF i = 0 THEN {<< >>}
    ELSE {Append(t, None) : t \in Toggles(i - 1, b)}
         \cup (IF b = 0 THEN {}
               ELSE UNION { {Append(t, v) : v \in ToggleValues(i)}
                            : t \in Toggles(i - 1, b - 1) })

TargetInputs ==
    { <<StrV("postgres"), StrV("public")>>, <<StrV("snowflake"), StrV("analytics")>> }

\* a block as constructed: at most MaxEntries entries given by the caller
\* (entries of extras and of credentials, nested ones counted, and toggles)
InitTarget ==
    \E s \in 0..MaxEntries : \E extras \in ExtrasOfSize("threads", s) :
        \E threads \in {NotGiven, IntV(8)} : \E ts \in TargetInputs :
            node = TargetConfigs(ts[1], ts[2], threads, extras)

InitCredentials ==
    \E s \in 0..MaxEntries : \E extras \in ExtrasOfSize("threads", s) :
        \E credentials \in {None} \cup
                {Credentials(m) : m \in Maps("threads", MaxEntries - s)} :
            node = CredentialsTargetConfigs(StrV("snowflake"), StrV("analytics"),
                                            NotGiven, extras, credentials)

InitGlobal ==
    \E s \in 0..MaxEntries : \E extras \in ExtrasOfSize("debug", s) :
        \E toggles \in Toggles(Len(GlobalToggles), MaxEntries - s) :
            node = GlobalConfigs(toggles, extras)

(* --------------------------- state machine --------------------------- *)

NotCalled == [status |-> "not called"]

\* node: the block; last: what the latest get_configs call gave its caller;
\* earlier: what the call before that one gave
Init ==
    /\ InitTarget \/ InitCredentials \/ InitGlobal
    /\ earlier = NotCalled
    /\ last = NotCalled

GetConfigs ==
    /\ last' = GetConfigsOf(node, last)
    /\ earlier' = last
    /\ node' = node

Next == GetConfigs

Spec == Init /\ [][Next]_vars

(* ----------------------- the flattened tree -------------------------- *)
(* What the claims speak of, stated on the block itself and not on the     *)
(* loop: the fields of the tree that contribute a key.                     *)

\* a name without its trailing underscores
Stripped(raw) ==
    LET kept == {i \in DOMAIN raw : raw[i] # "_"}
    IN  IF kept = {} THEN << >>
        ELSE SubSeq(raw, 1, CHOOSE i \in kept : \A j \in kept : j <= i)

UnderscorePrefixed(raw) == raw # << >> /\ Head(raw) = "_"

Excluded == {<<"block_type_slug">>}

NestedNames(kind) ==
    IF kind = "CredentialsTargetConfigs"
    THEN {<<"credentials">>, <<"extras">>}
    ELSE {<<"extras">>}

IsSecret(value) == value.tag \in {"SecretStr", "SecretBytes"}

Plaintext(value) ==
    IF value.tag = "SecretStr" THEN [tag |-> "str", val |-> value.val]
    ELSE IF value.tag = "SecretBytes" THEN [tag |-> "bytes", val |-> value.val]
    ELSE value

\* the contributing fields below `items`: non-null, not excluded, not
\* underscore-prefixed, own or reached through nested fields; each with the
\* path of positions that leads to it
RECURSIVE ContributingIn(_, _, _)
ContributingIn(kind, items, path) ==
    UNION { LET raw == items[i][1]
                value == items[i][2]
            IN  IF UnderscorePrefixed(raw) \/ raw \in Excluded \/ value = None
                THEN {}
                ELSE IF Stripped(raw) \in NestedNames(kind)
                THEN IF value.tag = "dict"
                     THEN ContributingIn(kind, value.items, Append(path, i))
                     ELSE {}
                ELSE {[path |-> Append(path, i), raw |-> raw, value |-> value]}
          : i \in DOMAIN items }

Contributing == ContributingIn(node.kind, node.fields, << >>)

DuplicatedKeys ==
    { Stripped(f.raw) : f \in { g \in Contributing :
        \E h \in Contributing : h.path # g.path /\ Stripped(h.raw) = Stripped(g.raw) } }

Field(n, raw) == (CHOOSE i \in DOMAIN n.fields : n.fields[i][1] = raw)

FieldValue(n, raw) == n.fields[Field(n, raw)][2]

Called == last # NotCalled

(* ------------------------------ claims ------------------------------- *)

\* C1: whenever two contributing fields of the tree resolve to the same key
\* after trailing-underscore stripping, get_configs raises the duplicate-key
\* ValueError naming such a key and returns no mapping.
C1_DuplicateRaisesValueError ==
    (Called /\ DuplicatedKeys # {}) =>
        (last.status = "ValueError" /\ last.key \in DuplicatedKeys)

\* C2: when the contributing fields have pairwise distinct stripped names,
\* get_configs succeeds and returns exactly the mapping from each stripped
\* name to the field's value, secrets replaced by their plaintext.
C2_DistinctNamesGiveExactMapping ==
    (Called /\ DuplicatedKeys = {}) =>
        /\ last.status = "returned"
        /\ DOMAIN last.configs = {Stripped(f.raw) : f \in Contributing}
        /\ \A f \in Contributing : last.configs[Stripped(f.raw)] = Plaintext(f.value)

\* C3: a TargetConfigs built with type t and schema s, threads not given and
\* extras unset, gives exactly {type: t, schema: s, threads: 4}.
C3_TargetConfigsDefaults ==
    \A ts \in TargetInputs :
        (Called /\ node = TargetConfigs(ts[1], ts[2], NotGiven, None)) =>
            last = [status |-> "returned",
                    configs |-> (<<"type">> :> ts[1]) @@ (<<"schema">> :> ts[2])
                                @@ (<<"threads">> :> [tag |-> "int", val |-> 4])]

C3_Witness ==
    /\ node = TargetConfigs(StrV("postgres"), StrV("public"), NotGiven, None)
    /\ last.status = "returned"

IsCredentialsNode ==
    /\ node.kind = "CredentialsTargetConfigs"
    /\ FieldValue(node, <<"credentials">>) # None

CredentialsItems == FieldValue(node, <<"credentials">>).items

\* C4 as stated: with a non-null credentials mapping, every non-null entry of
\* credentials is a top-level key of the result, and no nested-field name is.
C4_EveryCredentialsEntryEmitted ==
    (IsCredentialsNode /\ last.status = "returned") =>
        /\ \A i \in DOMAIN CredentialsItems :
               CredentialsItems[i][2] # None =>
                   Stripped(CredentialsItems[i][1]) \in DOMAIN last.configs
        /\ DOMAIN last.configs \cap NestedNames(node.kind) = {}

\* C4 amended: when get_configs returns a mapping, every non-null entry of
\* credentials whose name is not underscore-prefixed, not excluded and, once
\* stripped, not a nested-field name is a top-level key of the result with its
\* plaintext value, next to type, schema and threads; and for every node no
\* name of its _nested_fields is a key of the result.
C4_CredentialsFlattened ==
    last.status = "returned" =>
        /\ DOMAIN last.configs \cap NestedNames(node.kind) = {}
        /\ IsCredentialsNode =>
            /\ \A i \in DOMAIN CredentialsItems :
                   LET raw == CredentialsItems[i][1]
                       value == CredentialsItems[i][2]
                   IN  (/\ value # None
                        /\ ~UnderscorePrefixed(raw)
                        /\ raw \notin Excluded
                        /\ Stripped(raw) \notin NestedNames(node.kind)) =>
                           /\ Stripped(raw) \in DOMAIN last.configs
                           /\ last.configs[Stripped(raw)] = Plaintext(value)
            /\ {<<"type">>, <<"schema">>, <<"threads">>} \subseteq DOMAIN last.configs
            /\ last.configs[<<"type">>] = FieldValue(node, <<"type">>)
            /\ last.configs[<<"schema">>] = FieldValue(node, <<"schema", "_">>)
            /\ last.configs[<<"threads">>] = FieldValue(node, <<"threads">>)

C4_Witness ==
    /\ IsCredentialsNode
    /\ \E i \in DOMAIN CredentialsItems :
           /\ CredentialsItems[i][1] = <<"password">>
           /\ IsSecret(CredentialsItems[i][2])
    /\ last.status = "returned"
    /\ <<"password">> \in DOMAIN last.configs

GivenToggles ==
    { i \in DOMAIN GlobalToggles : FieldValue(node, GlobalToggles[i]) # None }

\* C5: no key of a result maps to null and every key comes from a field whose
\* value is not null; a GlobalConfigs without extras gives exactly the toggles
\* that were given, so none at all when every toggle is unset.
C5_NullNeverEmitted ==
    last.status = "returned" =>
        /\ \A k \in DOMAIN last.configs :
               /\ last.configs[k] # None
               /\ \E f \in Contributing :
                      Stripped(f.raw) = k /\ last.configs[k] = Plaintext(f.value)
        /\ (node.kind = "GlobalConfigs" /\ FieldValue(node, <<"extras">>) = None) =>
               /\ DOMAIN last.configs = {GlobalToggles[i] : i \in GivenToggles}
               /\ \A i \in GivenToggles :
                      last.configs[GlobalToggles[i]] = FieldValue(node, GlobalToggles[i])

C5_Witness ==
    /\ node.kind = "GlobalConfigs"
    /\ GivenToggles = {}
    /\ FieldValue(node, <<"extras">>) # None
    /\ \E i \in DOMAIN FieldValue(node, <<"extras">>).items :
           FieldValue(node, <<"extras">>).items[i] = <<<<"password">>, None>>
    /\ last = [status |-> "returned", configs |-> << >>]

\* C6: no value stored in a result is a secret wrapper; every secret-typed
\* contributing field is stored as the plaintext of its secret.
C6_SecretsUnwrapped ==
    last.status = "returned" =>
        /\ \A k \in DOMAIN last.configs : ~IsSecret(last.configs[k])
        /\ \A f \in Contributing :
               IsSecret(f.value) =>
                   /\ Stripped(f.raw) \in DOMAIN last.configs
                   /\ last.configs[Stripped(f.raw)].val = f.value.val
                   /\ last.configs[Stripped(f.raw)].tag \in {"str", "bytes"}

C6_Witness ==
    /\ last.status = "returned"
    /\ \E f \in Contributing : f.value.tag = "SecretStr" /\ Len(f.path) > 1
    /\ \E f \in Contributing : f.value.tag = "SecretBytes"

\* every entry the walk can meet: own fields, and the entries of every dict
\* value at any depth
RECURSIVE EntriesIn(_)
EntriesIn(items) ==
    UNION { {items[i]} \cup (IF items[i][2].tag = "dict"
                             THEN EntriesIn(items[i][2].items) ELSE {})
          : i \in DOMAIN items }

SlugValues == { [tag |-> "str", val |-> "block-slug"],
                [tag |-> "str", val |-> "credentials-slug"] }

\* C7 as stated: no key of the result is a member of _exclude_fields.
C7_NoExcludedKey ==
    last.status = "returned" => DOMAIN last.configs \cap Excluded = {}

\* C7 amended: no field whose own name is in _exclude_fields gives the result
\* a key or a value; the test is made on the name before its trailing
\* underscores are stripped, so a key of the result that is in
\* _exclude_fields comes from a field named with trailing underscores
\* (block_type_slug_).
C7_ExcludedFieldsNeverEmitted ==
    last.status = "returned" =>
        \A k \in DOMAIN last.configs :
            /\ last.configs[k] \notin SlugValues
            /\ k \in Excluded =>
                   \E e \in EntriesIn(node.fields) :
                       /\ e[1] \notin Excluded
                       /\ Stripped(e[1]) = k
                       /\ last.configs[k] = Plaintext(e[2])

C7_Witness ==
    /\ last.status = "returned"
    /\ <<"block_type_slug">> \in DOMAIN last.configs

\* C8: every key of a result is the name of a contributing field with all of
\* its trailing underscores removed; no key ends with an underscore.
C8_KeysAreStripped ==
    last.status = "returned" =>
        \A k \in DOMAIN last.configs :
            /\ (k = << >> \/ k[Len(k)] # "_")
            /\ \E f \in Contributing :
                   /\ Len(k) <= Len(f.raw)
                   /\ SubSeq(f.raw, 1, Len(k)) = k
                   /\ \A j \in (Len(k) + 1)..Len(f.raw) : f.raw[j] = "_"

C8_Witness ==
    /\ last.status = "returned"
    /\ <<"schema">> \in DOMAIN last.configs
    /\ \E f \in Contributing : f.raw = <<"schema", "_", "_">>

C10_OnlyDuplicateKeyError ==
    Called => last.status \in {"returned", "ValueError"}

====
